---------------------------- MODULE Spec2Model ----------------------------
(***************************************************************************)
(* Model of ascn-aws-agent.py: five tool functions that wrap one AWS call  *)
(* each and turn every exception into an error string, and the harness     *)
(* test_aws_agent that sends each query to the language model and then     *)
(* picks at most one tool by substring matching on the query text.         *)
(*                                                                         *)
(* Python strings are TLA+ strings; Len, SubSeq and \o act on them         *)
(* character by character.  A call's outcome is either a returned value or *)
(* a raised exception (an instance of Exception, carrying its str()).      *)
(***************************************************************************)
EXTENDS Integers, Sequences, FiniteSets, TLC

VARIABLES
    aws_access_key_id,      \* os.getenv('AWS_ACCESS_KEY'): a string or None
    aws_secret_access_key,  \* os.getenv('AWS_SECRET_KEY'): a string or None
    region_name,            \* os.getenv('REGION_NAME'): a string or None
    call,                   \* the last tool call: tool, argument, the provider's answer (kept
                            \* when the tool is called directly), subprocess runs, outcome
    queries,                \* the sequence the harness loop iterates over
    i,                      \* index of the loop's current query
    pc,                     \* position of test_aws_agent
    trace,                  \* calls made so far: loop starts, model calls, tool calls
    reply,                  \* result.content of the current iteration's model call
    printed                 \* lines printed by the current iteration

vars == <<aws_access_key_id, aws_secret_access_key, region_name, call,
          queries, i, pc, trace, reply, printed>>

credVars == <<aws_access_key_id, aws_secret_access_key, region_name>>
harnessVars == <<queries, i, pc, trace, reply, printed>>

-----------------------------------------------------------------------------
(* Bounds and sample values *)

\* Longest list of items (zones, buckets, policies, reservations, instances)
\* a provider response carries.
MaxItems == 2

None == "<None>"

CredValues == {None, "AKIAEXAMPLE"}

ExcTexts == {"AccessDenied", "Could not connect to the endpoint URL"}

ItemNames == {"alpha", "Error-logs"}

InstanceTypes == {"t2.micro", "m5.large"}

InstanceIps == {"10.0.1.112", "10.0.1.5", "not an ip"}

UserNames == {"take-home-coding", "alice"}

Commands == {"ec2 describe-regions", "  s3   ls ", "", "sts\tget-caller-identity\n",
             "s3 cp a\" b\" s3://alpha"}

ReturnCodes == {0, 1, 255}

StdTexts == {"", "us-east-1\n", "Error: partial listing\n"}

SeqsUpTo(S, n) == UNION {[1..k -> S] : k \in 0..n}

-----------------------------------------------------------------------------
(* Python values and string operations *)

Return(v) == [kind |-> "return", value |-> v]

Raise(e) == [kind |-> "raise", exc |-> e]

\* t in s
Contains(s, t) ==
    \E k \in 0..(Len(s) - Len(t)) : SubSeq(s, k + 1, k + Len(t)) = t

\* s.startswith(p)
StartsWith(s, p) == Len(p) <= Len(s) /\ SubSeq(s, 1, Len(p)) = p

UpperLetters == "ABCDEFGHIJKLMNOPQRSTUVWXYZ"

LowerLetters == "abcdefghijklmnopqrstuvwxyz"

\* The lower-case letter of each upper-case letter.
ToLower == [k \in 1..Len(UpperLetters) |-> SubSeq(LowerLetters, k, k)]

UpperSet == {SubSeq(UpperLetters, k, k) : k \in 1..Len(UpperLetters)}

UpperIndex == [c \in UpperSet |-> CHOOSE k \in 1..Len(UpperLetters) : SubSeq(UpperLetters, k, k) = c]

LowerChar(c) == IF c \in UpperSet THEN ToLower[UpperIndex[c]] ELSE c

\* t in s.lower(): lower() maps s character by character, so t occurs in
\* s.lower() where the lower-cased characters of s spell t.
InLower(t, s) ==
    \E k \in 0..(Len(s) - Len(t)) :
        \A j \in 1..Len(t) : LowerChar(SubSeq(s, k + j, k + j)) = SubSeq(t, j, j)

Whitespace == {" ", "\t", "\n"}

RECURSIVE SplitFrom(_, _, _, _)
SplitFrom(s, k, cur, acc) ==
    IF k > Len(s)
    THEN IF cur = "" THEN acc ELSE Append(acc, cur)
    ELSE LET c == SubSeq(s, k, k)
         IN  IF c \in Whitespace
             THEN SplitFrom(s, k + 1, "", IF cur = "" THEN acc ELSE Append(acc, cur))
             ELSE SplitFrom(s, k + 1, cur \o c, acc)

RECURSIVE SplitOnSpaceFrom(_, _, _, _)
SplitOnSpaceFrom(s, k, cur, acc) ==
    IF k > Len(s)
    THEN Append(acc, cur)
    ELSE LET c == SubSeq(s, k, k)
         IN  IF c = " "
             THEN SplitOnSpaceFrom(s, k + 1, "", Append(acc, cur))
             ELSE SplitOnSpaceFrom(s, k + 1, cur \o c, acc)

\* s.split(" "): every single space separates, empty tokens are kept
split_on_space(s) == SplitOnSpaceFrom(s, 1, "", <<>>)

\* s.split(): runs of whitespace separate, no empty token
split(s) == SplitFrom(s, 1, "", <<>>)

RECURSIVE JoinRepr(_)
JoinRepr(names) ==
    IF names = <<>> THEN ""
    ELSE "'" \o Head(names) \o "'"
         \o (IF Len(names) > 1 THEN ", " ELSE "") \o JoinRepr(Tail(names))

\* str() of a list of strings, as an f-string formats it
ListStr(names) == "[" \o JoinRepr(names) \o "]"

-----------------------------------------------------------------------------
(* What the providers can answer *)

\* A list response of the SDK: {key: [{field: name}, ...]}, or an exception.
ListResponses(key, field) ==
    {Raise(e) : e \in ExcTexts}
    \cup {Return([k \in {key} |-> [n \in DOMAIN names |-> [f \in {field} |-> names[n]]]]) :
            names \in SeqsUpTo(ItemNames, MaxItems)}

Route53Outcomes == ListResponses("HostedZones", "Name")

IamOutcomes == ListResponses("AttachedPolicies", "PolicyName")

\* boto3.client('s3', ...) raises, or the client's list_buckets() answers.
S3Outcomes ==
    {[client |-> Raise(e)] : e \in ExcTexts}
    \cup {[client |-> Return("s3"), list_buckets |-> o] : o \in ListResponses("Buckets", "Name")}

InstanceLists == SeqsUpTo({[InstanceType |-> t] : t \in InstanceTypes}, MaxItems)

\* describe_instances responses that lack a key the code subscripts.
MalformedEc2Responses ==
    { [ResponseMetadata |-> "200"],
      [Reservations |-> <<[ReservationId |-> "r-1"]>>],
      [Reservations |-> <<[Instances |-> <<[InstanceId |-> "i-1"]>>]>>] }

Ec2Outcomes ==
    {Raise(e) : e \in ExcTexts}
    \cup {Return([Reservations |-> rs]) :
            rs \in SeqsUpTo({[Instances |-> is] : is \in InstanceLists}, MaxItems)}
    \cup {Return(r) : r \in MalformedEc2Responses}

\* The aws process cannot be started, or it runs to completion.
ProcOutcomes ==
    {Raise("[Errno 2] No such file or directory: 'aws'")}
    \cup {Return([returncode |-> rc, stdout |-> out, stderr |-> err]) :
            rc \in ReturnCodes, out \in StdTexts, err \in StdTexts}

\* str() of the exceptions Python itself raises in the tool bodies
KeyErrorText(key) == "'" \o key \o "'"

IndexErrorText == "list index out of range"

NoneEnvErrorText == "expected str, bytes or os.PathLike object, not NoneType"

-----------------------------------------------------------------------------
(* The tool functions *)

\* The handler left out: the exception leaves the function.
except_Exception_propagates(outcome, prefix) == outcome

\* except Exception as e: return f"<prefix>{str(e)}"
except_Exception(outcome, prefix) ==
    IF outcome.kind = "raise" THEN Return(prefix \o outcome.exc) ELSE outcome

\* d[key] for each of a list of dicts: the first missing key raises KeyError
AllHave(dicts, key) == \A n \in DOMAIN dicts : key \in DOMAIN dicts[n]

\* [item[field] for item in response[key]]
NamesOf(response, key, field) ==
    IF key \notin DOMAIN response THEN Raise(KeyErrorText(key))
    ELSE IF ~AllHave(response[key], field) THEN Raise(KeyErrorText(field))
    ELSE Return([n \in DOMAIN response[key] |-> response[key][n][field]])

\* env of the child process
aws_cli_env ==
    [AWS_ACCESS_KEY_ID |-> aws_access_key_id,
     AWS_SECRET_ACCESS_KEY |-> aws_secret_access_key,
     AWS_DEFAULT_REGION |-> region_name]

aws_cli_argv_split_on_space(command) == <<"aws">> \o split_on_space(command)

\* ['aws'] + command.split()
aws_cli_argv(command) == <<"aws">> \o split(command)

\* subprocess.run(argv, capture_output=True, text=True, env=env): an env value
\* that is None makes Popen raise TypeError before any process exists.
subprocess_run(argv, env, proc) ==
    IF \E k \in DOMAIN env : env[k] = None THEN Raise(NoneEnvErrorText) ELSE proc

\* The calls of subprocess.run one aws_cli_command call makes.
aws_cli_runs(command) == <<[args |-> aws_cli_argv(command), env |-> aws_cli_env]>>

aws_cli_body_any_exit_is_success(command, proc) ==
    LET result == subprocess_run(aws_cli_argv(command), aws_cli_env, proc)
    IN  IF result.kind = "raise" THEN result ELSE Return(result.value.stdout)

aws_cli_body(command, proc) ==
    LET result == subprocess_run(aws_cli_argv(command), aws_cli_env, proc)
    IN  IF result.kind = "raise" THEN result
        ELSE IF result.value.returncode = 0 THEN Return(result.value.stdout)
        ELSE Return("Error: " \o result.value.stderr)

aws_cli_command(command, proc) ==
    except_Exception(aws_cli_body(command, proc), "Error executing AWS command: ")

list_route53_hosted_zones(resp) ==
    except_Exception(
        IF resp.kind = "raise" THEN resp
        ELSE LET hosted_zones == NamesOf(resp.value, "HostedZones", "Name")
             IN  IF hosted_zones.kind = "raise" THEN hosted_zones
                 ELSE Return("Route 53 Hosted Zones: " \o ListStr(hosted_zones.value)),
        "Error listing Route 53 hosted zones: ")

\* The last reservation's first instance is reported instead of the first's.
get_ec2_instance_size_body_last(instance_ip, resp) ==
    IF resp.kind = "raise" THEN resp
    ELSE LET instances == resp.value
         IN  IF "Reservations" \notin DOMAIN instances THEN Raise(KeyErrorText("Reservations"))
             ELSE IF instances.Reservations # <<>>
             THEN LET r == instances.Reservations[Len(instances.Reservations)]
                  IN  IF "Instances" \notin DOMAIN r THEN Raise(KeyErrorText("Instances"))
                      ELSE IF r.Instances = <<>> THEN Raise(IndexErrorText)
                      ELSE IF "InstanceType" \notin DOMAIN r.Instances[1]
                      THEN Raise(KeyErrorText("InstanceType"))
                      ELSE Return("EC2 instance " \o instance_ip \o " is of type: "
                                  \o r.Instances[1].InstanceType)
             ELSE Return("No EC2 instance found with IP address: " \o instance_ip)

get_ec2_instance_size_body(instance_ip, resp) ==
    IF resp.kind = "raise" THEN resp
    ELSE LET instances == resp.value
         IN  IF "Reservations" \notin DOMAIN instances THEN Raise(KeyErrorText("Reservations"))
             ELSE IF instances.Reservations # <<>>
             THEN LET r == instances.Reservations[1]
                  IN  IF "Instances" \notin DOMAIN r THEN Raise(KeyErrorText("Instances"))
                      ELSE IF r.Instances = <<>> THEN Raise(IndexErrorText)
                      ELSE IF "InstanceType" \notin DOMAIN r.Instances[1]
                      THEN Raise(KeyErrorText("InstanceType"))
                      ELSE Return("EC2 instance " \o instance_ip \o " is of type: "
                                  \o r.Instances[1].InstanceType)
             ELSE Return("No EC2 instance found with IP address: " \o instance_ip)

get_ec2_instance_size(instance_ip, resp) ==
    except_Exception(get_ec2_instance_size_body(instance_ip, resp),
                     "Error getting EC2 instance size: ")

get_user_permissions(user_name, resp) ==
    except_Exception(
        IF resp.kind = "raise" THEN resp
        ELSE LET policy_names == NamesOf(resp.value, "AttachedPolicies", "PolicyName")
             IN  IF policy_names.kind = "raise" THEN policy_names
                 ELSE Return("IAM user '" \o user_name \o "' has these policies: "
                             \o ListStr(policy_names.value)),
        "Error getting user permissions: ")

list_s3_buckets(s3) ==
    except_Exception(
        IF s3.client.kind = "raise" THEN s3.client
        ELSE IF s3.list_buckets.kind = "raise" THEN s3.list_buckets
        ELSE LET bucket_names == NamesOf(s3.list_buckets.value, "Buckets", "Name")
             IN  IF bucket_names.kind = "raise" THEN bucket_names
                 ELSE Return("S3 Buckets: " \o ListStr(bucket_names.value)),
        "Error listing S3 buckets: ")

ToolNames == {"aws_cli_command", "list_route53_hosted_zones", "get_ec2_instance_size",
              "get_user_permissions", "list_s3_buckets"}

\* A tool function of the four that call the SDK, applied.
SdkTool(tool, arg, provider) ==
    CASE tool = "list_route53_hosted_zones" -> list_route53_hosted_zones(provider)
      [] tool = "get_ec2_instance_size" -> get_ec2_instance_size(arg, provider)
      [] tool = "get_user_permissions" -> get_user_permissions(arg, provider)
      [] tool = "list_s3_buckets" -> list_s3_buckets(provider)

\* The record of one tool call: what was asked, what the provider did, what came back.
ToolCall(tool, arg, provider) ==
    [tool |-> tool, arg |-> arg, provider |-> provider,
     runs |-> IF tool = "aws_cli_command" THEN aws_cli_runs(arg) ELSE <<>>,
     outcome |-> IF tool = "aws_cli_command" THEN aws_cli_command(arg, provider)
                 ELSE SdkTool(tool, arg, provider)]

NoCall == [tool |-> "", arg |-> "", provider |-> "", runs |-> <<>>, outcome |-> Return("")]

-----------------------------------------------------------------------------
(* Tool functions called directly, as an agent or a test would call them *)

Pending == [kind |-> "pending"]

\* A call about to be made: the tool, its argument and what the provider will answer.
Request(tool, arg, provider) ==
    [tool |-> tool, arg |-> arg, provider |-> provider, runs |-> <<>>, outcome |-> Pending]

Requested(tool) == call.tool = tool /\ call.outcome = Pending

Invoke_aws_cli_command ==
    /\ Requested("aws_cli_command")
    /\ call' = ToolCall("aws_cli_command", call.arg, call.provider)
    /\ UNCHANGED <<credVars, harnessVars>>

Invoke_list_route53_hosted_zones ==
    /\ Requested("list_route53_hosted_zones")
    /\ call' = ToolCall("list_route53_hosted_zones", call.arg, call.provider)
    /\ UNCHANGED <<credVars, harnessVars>>

Invoke_get_ec2_instance_size ==
    /\ Requested("get_ec2_instance_size")
    /\ call' = ToolCall("get_ec2_instance_size", call.arg, call.provider)
    /\ UNCHANGED <<credVars, harnessVars>>

Invoke_get_user_permissions ==
    /\ Requested("get_user_permissions")
    /\ call' = ToolCall("get_user_permissions", call.arg, call.provider)
    /\ UNCHANGED <<credVars, harnessVars>>

Invoke_list_s3_buckets ==
    /\ Requested("list_s3_buckets")
    /\ call' = ToolCall("list_s3_buckets", call.arg, call.provider)
    /\ UNCHANGED <<credVars, harnessVars>>

ToolNext ==
    \/ Invoke_aws_cli_command
    \/ Invoke_list_route53_hosted_zones
    \/ Invoke_get_ec2_instance_size
    \/ Invoke_get_user_permissions
    \/ Invoke_list_s3_buckets

-----------------------------------------------------------------------------
(* The harness test_aws_agent *)

test_queries ==
    << "List all S3 buckets in my AWS account",
       "List all Route 53 hosted zones",
       "Get the size of EC2 instance with IP 10.0.1.112",
       "Get permissions for IAM user take-home-coding" >>

\* Other query texts the dispatch rules are exercised with.
OtherQueries ==
    { "What is the weather today",
      "Show the S3 bucket behind each hosted zone",
      "ROUTE 53 zones of EC2 10.0.1.112",
      "ec2 10.0.1.112 of iam user Take-Home-Coding",
      "Describe EC2 instance 10.0.1.5",
      "Which s3 objects are public",
      "IAM user take-home-coding and the S3 Bucket list" }

QueryLists ==
    {test_queries}
    \cup {<<q>> : q \in OtherQueries}
    \cup {<<q, q>> : q \in {test_queries[1], "What is the weather today"}}

Replies == {"I will call list_s3_buckets to list all S3 buckets.",
            "Use get_user_permissions for IAM user take-home-coding."}

ModelErrors == {"Incorrect API key provided"}

\* chain.invoke(...) raises, or returns a message whose content is the reply
ModelOutcomes == {Raise(e) : e \in ModelErrors} \cup {Return(r) : r \in Replies}

\* ChatPromptTemplate.from_template(...) with {input} filled in
Prompt(input) ==
    "\nYou are a helpful assistant that can interact with AWS services. "
    \o "You have access to the following tools:\n\nAvailable tools:\n"
    \o "- aws_cli_command: Execute any AWS CLI command\n"
    \o "- list_route53_hosted_zones: List all Route 53 hosted zones\n"
    \o "- get_ec2_instance_size: Get EC2 instance type by private IP address\n"
    \o "- get_user_permissions: Get IAM user policies by username\n"
    \o "- list_s3_buckets: List all S3 buckets\n\n"
    \o "User request: " \o input \o "\n\nYour response:\n"

\* chain.invoke({"input": query}): the text the model receives
chain_input(query) == Prompt(query)

NoTool == [tool |-> "", args |-> <<>>]

\* The rules read the model's reply instead of the query.
SelectTool_from_reply(query) ==
    IF InLower("s3", reply) /\ InLower("bucket", reply)
    THEN [tool |-> "list_s3_buckets", args |-> <<>>]
    ELSE IF InLower("route 53", reply) \/ InLower("hosted zone", reply)
    THEN [tool |-> "list_route53_hosted_zones", args |-> <<>>]
    ELSE IF InLower("ec2", reply) /\ Contains(reply, "10.0.1.112")
    THEN [tool |-> "get_ec2_instance_size", args |-> <<"10.0.1.112">>]
    ELSE IF InLower("iam", reply) /\ InLower("take-home-coding", reply)
    THEN [tool |-> "get_user_permissions", args |-> <<"take-home-coding">>]
    ELSE NoTool

\* The Route 53 rule is tested before the S3 rule.
SelectTool_route53_first(query) ==
    IF InLower("route 53", query) \/ InLower("hosted zone", query)
    THEN [tool |-> "list_route53_hosted_zones", args |-> <<>>]
    ELSE IF InLower("s3", query) /\ InLower("bucket", query)
    THEN [tool |-> "list_s3_buckets", args |-> <<>>]
    ELSE IF InLower("ec2", query) /\ Contains(query, "10.0.1.112")
    THEN [tool |-> "get_ec2_instance_size", args |-> <<"10.0.1.112">>]
    ELSE IF InLower("iam", query) /\ InLower("take-home-coding", query)
    THEN [tool |-> "get_user_permissions", args |-> <<"take-home-coding">>]
    ELSE NoTool

\* A final else that falls back to the CLI tool with the query as the command.
SelectTool_with_default(query) ==
    IF InLower("s3", query) /\ InLower("bucket", query)
    THEN [tool |-> "list_s3_buckets", args |-> <<>>]
    ELSE IF InLower("route 53", query) \/ InLower("hosted zone", query)
    THEN [tool |-> "list_route53_hosted_zones", args |-> <<>>]
    ELSE IF InLower("ec2", query) /\ Contains(query, "10.0.1.112")
    THEN [tool |-> "get_ec2_instance_size", args |-> <<"10.0.1.112">>]
    ELSE IF InLower("iam", query) /\ InLower("take-home-coding", query)
    THEN [tool |-> "get_user_permissions", args |-> <<"take-home-coding">>]
    ELSE [tool |-> "list_s3_buckets", args |-> <<>>]

\* The substrings are tested against the query as written, without lower().
SelectTool_case_sensitive(query) ==
    IF Contains(query, "s3") /\ Contains(query, "bucket")
    THEN [tool |-> "list_s3_buckets", args |-> <<>>]
    ELSE IF Contains(query, "route 53") \/ Contains(query, "hosted zone")
    THEN [tool |-> "list_route53_hosted_zones", args |-> <<>>]
    ELSE IF Contains(query, "ec2") /\ Contains(query, "10.0.1.112")
    THEN [tool |-> "get_ec2_instance_size", args |-> <<"10.0.1.112">>]
    ELSE IF Contains(query, "iam") /\ Contains(query, "take-home-coding")
    THEN [tool |-> "get_user_permissions", args |-> <<"take-home-coding">>]
    ELSE NoTool

\* The if/elif chain: which tool the query text selects, with its literal arguments.
SelectTool(query) ==
    IF InLower("s3", query) /\ InLower("bucket", query)
    THEN [tool |-> "list_s3_buckets", args |-> <<>>]
    ELSE IF InLower("route 53", query) \/ InLower("hosted zone", query)
    THEN [tool |-> "list_route53_hosted_zones", args |-> <<>>]
    ELSE IF InLower("ec2", query) /\ Contains(query, "10.0.1.112")
    THEN [tool |-> "get_ec2_instance_size", args |-> <<"10.0.1.112">>]
    ELSE IF InLower("iam", query) /\ InLower("take-home-coding", query)
    THEN [tool |-> "get_user_permissions", args |-> <<"take-home-coding">>]
    ELSE NoTool

\* tool.invoke({...}) with the literal arguments of the harness
InvokeArg(args) == IF args = <<>> THEN "" ELSE args[1]

\* Every outcome each tool call of the harness can have, over all the provider can answer.
S3Results == {list_s3_buckets(s3) : s3 \in S3Outcomes}

Route53Results == {list_route53_hosted_zones(resp) : resp \in Route53Outcomes}

Ec2Results == {get_ec2_instance_size("10.0.1.112", resp) : resp \in Ec2Outcomes}

IamResults == {get_user_permissions("take-home-coding", resp) : resp \in IamOutcomes}

PossibleOutcomes(sel) ==
    CASE sel = [tool |-> "list_s3_buckets", args |-> <<>>] -> S3Results
      [] sel = [tool |-> "list_route53_hosted_zones", args |-> <<>>] -> Route53Results
      [] sel = [tool |-> "get_ec2_instance_size", args |-> <<"10.0.1.112">>] -> Ec2Results
      [] sel = [tool |-> "get_user_permissions", args |-> <<"take-home-coding">>] -> IamResults

\* No handler around the iteration: the exception leaves test_aws_agent.
iteration_except_missing(e) == [pc |-> "crashed", line |-> "Traceback: " \o e]

\* The handler wraps the model call only and the iteration goes on to the dispatch.
iteration_except_then_dispatch(e) == [pc |-> "dispatch", line |-> "Error: " \o e]

\* except Exception as e: print(f"Error: {e}"), and the for loop goes on
iteration_except(e) == [pc |-> "loop", line |-> "Error: " \o e]

Separator == "=================================================="

\* for query in test_queries: the next query is taken and its header printed
StartIteration ==
    /\ pc = "loop"
    /\ i <= Len(queries)
    /\ pc' = "invoke_chain"
    /\ trace' = Append(trace, [ev |-> "start", q |-> i])
    /\ printed' = <<"\n" \o Separator, "Query: " \o queries[i], Separator>>
    /\ reply' = None
    /\ UNCHANGED <<credVars, call, queries, i>>

\* result = chain.invoke({"input": query}); print(result.content)
ModelCall ==
    /\ pc = "invoke_chain"
    /\ \E o \in ModelOutcomes :
        /\ trace' = Append(trace, [ev |-> "model", q |-> i, input |-> chain_input(queries[i]),
                                   raised |-> o.kind = "raise"])
        /\ IF o.kind = "raise"
           THEN LET h == iteration_except(o.exc)
                IN  /\ pc' = h.pc
                    /\ printed' = Append(printed, h.line)
                    /\ i' = IF h.pc = "loop" THEN i + 1 ELSE i
                    /\ reply' = reply
           ELSE /\ pc' = "dispatch"
                /\ reply' = o.value
                /\ printed' = printed \o <<"Agent response:", o.value>>
                /\ i' = i
    /\ UNCHANGED <<credVars, call, queries>>

\* One branch of the if/elif chain is taken: its tool is invoked and the result printed.
RunTool ==
    /\ pc = "dispatch"
    /\ \E sel \in {SelectTool(queries[i])} :
           /\ sel.tool # ""
           /\ \E outcome \in PossibleOutcomes(sel) :
                \E c \in {[tool |-> sel.tool, arg |-> InvokeArg(sel.args), provider |-> "",
                            runs |-> <<>>, outcome |-> outcome]} :
                    /\ call' = c
                    /\ trace' = Append(trace, [ev |-> "tool", q |-> i, tool |-> sel.tool,
                                               args |-> sel.args])
                    /\ IF c.outcome.kind = "raise"
                       THEN LET h == iteration_except(c.outcome.exc)
                            IN  /\ pc' = h.pc
                                /\ printed' = Append(printed, h.line)
                                /\ i' = IF h.pc = "loop" THEN i + 1 ELSE i
                       ELSE /\ pc' = "loop"
                            /\ printed' = Append(printed, "Result: " \o c.outcome.value)
                            /\ i' = i + 1
    /\ UNCHANGED <<credVars, queries, reply>>

\* No branch of the if/elif chain holds: the iteration ends with the model's text only.
SkipTool ==
    /\ pc = "dispatch"
    /\ SelectTool(queries[i]).tool = ""
    /\ pc' = "loop"
    /\ i' = i + 1
    /\ UNCHANGED <<credVars, call, queries, trace, reply, printed>>

\* The for loop is exhausted and test_aws_agent returns.
Finish ==
    /\ pc = "loop"
    /\ i > Len(queries)
    /\ pc' = "done"
    /\ UNCHANGED <<credVars, call, queries, i, trace, reply, printed>>

Next ==
    \/ StartIteration
    \/ ModelCall
    \/ RunTool
    \/ SkipTool
    \/ Finish

-----------------------------------------------------------------------------
(* Specifications *)

\* After import: the three credentials are whatever the environment holds.
Bootstrap ==
    /\ aws_access_key_id \in CredValues
    /\ aws_secret_access_key \in CredValues
    /\ region_name \in CredValues

Init ==
    /\ Bootstrap
    /\ call = NoCall
    /\ queries \in QueryLists
    /\ i = 1
    /\ pc = "loop"
    /\ trace = <<>>
    /\ reply = None
    /\ printed = <<>>

ToolInit ==
    /\ Bootstrap
    /\ \/ \E command \in Commands, proc \in ProcOutcomes :
            call = Request("aws_cli_command", command, proc)
       \/ \E resp \in Route53Outcomes :
            call = Request("list_route53_hosted_zones", "", resp)
       \/ \E instance_ip \in InstanceIps, resp \in Ec2Outcomes :
            call = Request("get_ec2_instance_size", instance_ip, resp)
       \/ \E user_name \in UserNames, resp \in IamOutcomes :
            call = Request("get_user_permissions", user_name, resp)
       \/ \E s3 \in S3Outcomes :
            call = Request("list_s3_buckets", "", s3)
    /\ queries = test_queries
    /\ i = 1
    /\ pc = "loop"
    /\ trace = <<>>
    /\ reply = None
    /\ printed = <<>>

\* test_aws_agent() run from the main guard
Spec == Init /\ [][Next]_vars

\* Every call the harness makes returns or raises: no call blocks forever.
FairSpec == Init /\ [][Next]_vars /\ WF_vars(Next)

\* The tool functions called one at a time with any input and provider answer.
ToolSpec == ToolInit /\ [][ToolNext]_vars

-----------------------------------------------------------------------------
(* Vocabulary of the properties *)

\* A tool function has been called and has ended.
CallEnded == call.tool \in ToolNames /\ call.outcome.kind # "pending"

\* The prefix each tool puts before the text of an exception it caught.
ErrorPrefix(tool) ==
    CASE tool = "aws_cli_command" -> "Error executing AWS command:"
      [] tool = "list_route53_hosted_zones" -> "Error listing Route 53 hosted zones:"
      [] tool = "get_ec2_instance_size" -> "Error getting EC2 instance size:"
      [] tool = "get_user_permissions" -> "Error getting user permissions:"
      [] tool = "list_s3_buckets" -> "Error listing S3 buckets:"

\* str() of the exception the provider call, the client construction or the
\* spawn raised in the call, None when none was raised.
UnderlyingException(c) ==
    CASE c.tool = "aws_cli_command" ->
            IF None \in {aws_access_key_id, aws_secret_access_key, region_name}
            THEN NoneEnvErrorText
            ELSE IF c.provider.kind = "raise" THEN c.provider.exc ELSE None
      [] c.tool = "list_s3_buckets" ->
            IF c.provider.client.kind = "raise" THEN c.provider.client.exc
            ELSE IF c.provider.list_buckets.kind = "raise" THEN c.provider.list_buckets.exc
            ELSE None
      [] OTHER -> IF c.provider.kind = "raise" THEN c.provider.exc ELSE None

\* The aws process ran and ended with a nonzero exit code.
NonzeroExit(c) ==
    /\ c.tool = "aws_cli_command"
    /\ UnderlyingException(c) = None
    /\ c.provider.value.returncode # 0

\* A describe_instances response the tool cannot read an instance type from.
UnreadableEc2(c) ==
    /\ c.tool = "get_ec2_instance_size"
    /\ c.provider.kind = "return"
    /\ LET resp == c.provider.value
       IN  \/ "Reservations" \notin DOMAIN resp
           \/ /\ resp.Reservations # <<>>
              /\ \/ "Instances" \notin DOMAIN resp.Reservations[1]
                 \/ resp.Reservations[1].Instances = <<>>
                 \/ "InstanceType" \notin DOMAIN resp.Reservations[1].Instances[1]

\* Failure as the claim counts it: provider exception, spawn failure, nonzero exit.
CallFailed(c) == UnderlyingException(c) # None \/ NonzeroExit(c)

\* The positions of the trace holding an event of the kind for query number q.
EventsOf(kind, q) == {k \in DOMAIN trace : trace[k].ev = kind /\ trace[k].q = q}

ToolEvents == {k \in DOMAIN trace : trace[k].ev = "tool"}

ModelRaised(q) == \E k \in EventsOf("model", q) : trace[k].raised

ModelReturned(q) == \E k \in EventsOf("model", q) : ~trace[k].raised

\* The tool call made for query number q, NoTool when none was made.
ToolCallFor(q) ==
    IF EventsOf("tool", q) = {} THEN NoTool
    ELSE LET k == CHOOSE k \in EventsOf("tool", q) : TRUE
         IN  [tool |-> trace[k].tool, args |-> trace[k].args]

\* The rule table of the harness, in order.
RuleTable ==
    << [tool |-> "list_s3_buckets", args |-> <<>>],
       [tool |-> "list_route53_hosted_zones", args |-> <<>>],
       [tool |-> "get_ec2_instance_size", args |-> <<"10.0.1.112">>],
       [tool |-> "get_user_permissions", args |-> <<"take-home-coding">>] >>

RuleHolds(r, query) ==
    CASE r = 1 -> InLower("s3", query) /\ InLower("bucket", query)
      [] r = 2 -> InLower("route 53", query) \/ InLower("hosted zone", query)
      [] r = 3 -> InLower("ec2", query) /\ Contains(query, "10.0.1.112")
      [] r = 4 -> InLower("iam", query) /\ InLower("take-home-coding", query)

MatchingRules(query) == {r \in DOMAIN RuleTable : RuleHolds(r, query)}

\* The tool of the first rule that holds of the query text, NoTool when none holds.
FirstMatch(query) ==
    IF MatchingRules(query) = {} THEN NoTool
    ELSE RuleTable[CHOOSE r \in MatchingRules(query) : \A r2 \in MatchingRules(query) : r <= r2]

\* Iteration q has ended: the loop is at a later query or has returned.
IterationEnded(q) == q < i

Header(query) == <<"\n" \o Separator, "Query: " \o query, Separator>>

-----------------------------------------------------------------------------
(* C1 *)

\* C1: whatever a tool function is called with and whatever its provider does,
\* the call ends by returning a string, never by raising; and when the provider
\* call, the client construction or the spawn raised, the string starts with
\* the tool's own error prefix and contains the text of the exception.
C1_ToolsAbsorbExceptions ==
    CallEnded =>
        /\ call.outcome.kind = "return"
        /\ UnderlyingException(call) # None =>
            /\ StartsWith(call.outcome.value, ErrorPrefix(call.tool))
            /\ Contains(call.outcome.value, UnderlyingException(call))

\* Constructing the S3 client raised inside list_s3_buckets and the call returned.
C1_Witness ==
    /\ CallEnded
    /\ call.tool = "list_s3_buckets"
    /\ call.provider.client.kind = "raise"
    /\ call.outcome = Return("Error listing S3 buckets: " \o call.provider.client.exc)

-----------------------------------------------------------------------------
(* C2 *)

\* C2 as stated: the result starts with "Error:" exactly when the call failed,
\* and the result of a call that did not fail has no "Error" prefix.
C2_ErrorColonIffFailed ==
    CallEnded =>
        /\ StartsWith(call.outcome.value, "Error:") <=> CallFailed(call)
        /\ ~CallFailed(call) => ~StartsWith(call.outcome.value, "Error")

\* C2, amended: a failed call (provider exception, client construction or spawn
\* failure, nonzero exit, unreadable response) returns a string that starts with
\* "Error": "Error: " for a nonzero exit of the CLI, and otherwise the tool's own
\* "Error ...:" prefix, which is not "Error:".  A successful call of the four SDK
\* tools returns a string with no "Error" prefix.  A successful aws_cli_command
\* returns the captured standard output unchanged.
C2_ErrorPrefixAmended ==
    CallEnded =>
        LET v == call.outcome.value
            failed == CallFailed(call) \/ UnreadableEc2(call)
        IN  /\ call.outcome.kind = "return"
            /\ NonzeroExit(call) => StartsWith(v, "Error: ")
            /\ (failed /\ ~NonzeroExit(call)) =>
                    StartsWith(v, ErrorPrefix(call.tool)) /\ ~StartsWith(v, "Error:")
            /\ (~failed /\ call.tool # "aws_cli_command") => ~StartsWith(v, "Error")
            /\ (~failed /\ call.tool = "aws_cli_command") => v = call.provider.value.stdout

\* list_hosted_zones raised and the result starts with "Error listing", not "Error:".
C2_Witness ==
    /\ CallEnded
    /\ call.tool = "list_route53_hosted_zones"
    /\ call.provider.kind = "raise"
    /\ StartsWith(call.outcome.value, "Error listing Route 53 hosted zones: ")
    /\ ~StartsWith(call.outcome.value, "Error:")

-----------------------------------------------------------------------------
(* C3 *)

RECURSIVE Concat(_)
Concat(tokens) == IF tokens = <<>> THEN "" ELSE Head(tokens) \o Concat(Tail(tokens))

\* The characters of s that are not whitespace, in order.
NonWhitespace(s) ==
    Concat([k \in 1..Len(s) |-> IF SubSeq(s, k, k) \in Whitespace THEN "" ELSE SubSeq(s, k, k)])

\* The positions of s where a run of non-whitespace characters begins.
TokenStarts(s) ==
    {k \in 1..Len(s) :
        /\ SubSeq(s, k, k) \notin Whitespace
        /\ k = 1 \/ SubSeq(s, k - 1, k - 1) \in Whitespace}

\* tokens are the whitespace-separated words of s.
IsWhitespaceSplit(tokens, s) ==
    /\ \A n \in DOMAIN tokens :
        /\ tokens[n] # ""
        /\ \A k \in 1..Len(tokens[n]) : SubSeq(tokens[n], k, k) \notin Whitespace
    /\ Concat(tokens) = NonWhitespace(s)
    /\ Len(tokens) = Cardinality(TokenStarts(s))

\* C3: aws_cli_command(command) calls subprocess.run once, with ['aws'] followed
\* by the whitespace-separated words of command and the three credentials in the
\* environment.  The result is the captured standard output when the exit code
\* is 0, "Error: " and the captured standard error when it is not, and
\* "Error executing AWS command: " and the exception text when the spawn raised.
C3_AwsCliCommand ==
    (CallEnded /\ call.tool = "aws_cli_command") =>
        /\ Len(call.runs) = 1
        /\ Head(call.runs[1].args) = "aws"
        /\ IsWhitespaceSplit(Tail(call.runs[1].args), call.arg)
        /\ call.arg = "ec2 describe-regions" =>
                call.runs[1].args = <<"aws", "ec2", "describe-regions">>
        /\ call.runs[1].env = [AWS_ACCESS_KEY_ID |-> aws_access_key_id,
                               AWS_SECRET_ACCESS_KEY |-> aws_secret_access_key,
                               AWS_DEFAULT_REGION |-> region_name]
        /\ call.outcome =
                IF UnderlyingException(call) # None
                THEN Return("Error executing AWS command: " \o UnderlyingException(call))
                ELSE IF call.provider.value.returncode = 0
                THEN Return(call.provider.value.stdout)
                ELSE Return("Error: " \o call.provider.value.stderr)

\* A command with runs of spaces was run as aws s3 ls and exited with 255.
C3_Witness ==
    /\ CallEnded
    /\ call.tool = "aws_cli_command"
    /\ call.arg = "  s3   ls "
    /\ call.runs[1].args = <<"aws", "s3", "ls">>
    /\ UnderlyingException(call) = None
    /\ call.provider.value.returncode = 255
    /\ call.outcome = Return("Error: " \o call.provider.value.stderr)

-----------------------------------------------------------------------------
(* C4 *)

\* C4: get_ec2_instance_size(ip) answers the "No EC2 instance found" message with
\* the ip when the response has no reservation; the type of the first
\* reservation's first instance, whatever else was returned, when it has one;
\* and the "Error getting EC2 instance size:" string for a provider exception
\* and for every other shape of response.
C4_Ec2InstanceSize ==
    (CallEnded /\ call.tool = "get_ec2_instance_size") =>
        LET v == call.outcome.value
        IN  /\ call.outcome.kind = "return"
            /\ IF call.provider.kind = "raise" \/ UnreadableEc2(call)
               THEN StartsWith(v, "Error getting EC2 instance size:")
               ELSE IF call.provider.value.Reservations = <<>>
               THEN /\ v = "No EC2 instance found with IP address: " \o call.arg
                    /\ Contains(v, "No EC2 instance found") /\ Contains(v, call.arg)
               ELSE v = "EC2 instance " \o call.arg \o " is of type: "
                        \o call.provider.value.Reservations[1].Instances[1].InstanceType

\* Two reservations with different types: the first one's first instance is named.
C4_Witness ==
    /\ CallEnded
    /\ call.tool = "get_ec2_instance_size"
    /\ call.provider.kind = "return"
    /\ ~UnreadableEc2(call)
    /\ Len(call.provider.value.Reservations) = 2
    /\ Len(call.provider.value.Reservations[1].Instances) = 2
    /\ call.provider.value.Reservations[1].Instances[1].InstanceType = "t2.micro"
    /\ call.provider.value.Reservations[1].Instances[2].InstanceType = "m5.large"
    /\ call.provider.value.Reservations[2].Instances = <<[InstanceType |-> "m5.large"]>>
    /\ call.outcome.value = "EC2 instance 10.0.1.112 is of type: t2.micro"

-----------------------------------------------------------------------------
(* C5 *)

\* C5: every tool call the harness makes for a query is the call of the first
\* rule of the table, in its order, whose condition holds of the query text; a
\* query that satisfies several rules gets the tool of the earliest one, and only
\* that tool.
C5_FirstMatchDispatch ==
    \A k \in ToolEvents :
        /\ MatchingRules(queries[trace[k].q]) # {}
        /\ [tool |-> trace[k].tool, args |-> trace[k].args] = FirstMatch(queries[trace[k].q])
        /\ EventsOf("tool", trace[k].q) = {k}

\* A query with "s3", "bucket" and "hosted zone" got the S3 tool and nothing else.
C5_Witness ==
    /\ queries = <<"Show the S3 bucket behind each hosted zone">>
    /\ MatchingRules(queries[1]) = {1, 2}
    /\ pc = "done"
    /\ \E k \in ToolEvents : trace[k].tool = "list_s3_buckets" /\ ToolEvents = {k}

-----------------------------------------------------------------------------
(* C6 *)

\* C6: an iteration makes exactly one model call, and makes it before any tool
\* call; it makes at most one tool call; for a query that matches no rule it
\* makes none, and prints the model's text only.
C6_OneModelCallThenAtMostOneTool ==
    \A q \in DOMAIN queries :
        /\ Cardinality(EventsOf("model", q)) <= 1
        /\ (IterationEnded(q) \/ (q = i /\ pc = "dispatch")) =>
                Cardinality(EventsOf("model", q)) = 1
        /\ \A k \in EventsOf("tool", q) : \E m \in EventsOf("model", q) : m < k
        /\ Cardinality(EventsOf("tool", q)) <= 1
        /\ MatchingRules(queries[q]) = {} =>
            /\ EventsOf("tool", q) = {}
            /\ (ModelReturned(q) /\ pc = "loop" /\ i = q + 1) =>
                    printed = Header(queries[q]) \o <<"Agent response:", reply>>

\* The iteration of a query that matches no rule has ended after the model answered.
C6_Witness ==
    /\ queries[1] = "What is the weather today"
    /\ MatchingRules(queries[1]) = {}
    /\ ModelReturned(1)
    /\ pc = "loop"
    /\ i = 2
    /\ ToolEvents = {}

-----------------------------------------------------------------------------
(* C7 *)

\* The start events of the trace, as the query numbers they start.
StartedQueries ==
    LET starts == SelectSeq(trace, LAMBDA e : e.ev = "start")
    IN  [n \in DOMAIN starts |-> starts[n].q]

\* C7: whatever fails in the iterations, no exception leaves test_aws_agent, the
\* queries are started once each in list order, no model call or tool call is
\* made twice for a query, and the harness ends having started every query.
C7_HarnessSurvivesFailures ==
    /\ [](/\ pc # "crashed"
          /\ StartedQueries = [n \in 1..Len(StartedQueries) |-> n]
          /\ Len(StartedQueries) <= Len(queries)
          /\ \A q \in DOMAIN queries :
                /\ Cardinality(EventsOf("model", q)) <= 1
                /\ Cardinality(EventsOf("tool", q)) <= 1)
    /\ <>(pc = "done" /\ Len(StartedQueries) = Len(queries))

\* The harness returned although the model call failed for the first and third query.
C7_Witness ==
    /\ pc = "done"
    /\ queries = test_queries
    /\ ModelRaised(1)
    /\ ModelReturned(2)
    /\ ModelRaised(3)
    /\ StartedQueries = <<1, 2, 3, 4>>

-----------------------------------------------------------------------------
(* C8 *)

\* C8: the model's reply drives nothing.  In every iteration whose model call
\* returned, the tool call made is the one the query text alone determines,
\* whatever the reply says; two iterations over the same query text make the same
\* tool call; and what the model is sent is the prompt filled with the query,
\* so no tool result reaches it.
C8_ReplyDrivesNothing ==
    /\ \A q \in DOMAIN queries :
        (IterationEnded(q) /\ ModelReturned(q)) => ToolCallFor(q) = FirstMatch(queries[q])
    /\ \A q1, q2 \in DOMAIN queries :
        (/\ IterationEnded(q1) /\ ModelReturned(q1)
         /\ IterationEnded(q2) /\ ModelReturned(q2)
         /\ queries[q1] = queries[q2]) => ToolCallFor(q1) = ToolCallFor(q2)
    /\ \A k \in DOMAIN trace :
        trace[k].ev = "model" => trace[k].input = Prompt(queries[trace[k].q])

\* The reply named the S3 tool and buckets, the query matched no rule: no tool ran.
C8_Witness ==
    /\ queries[1] = "What is the weather today"
    /\ IterationEnded(1)
    /\ ModelReturned(1)
    /\ InLower("s3", reply) /\ InLower("bucket", reply)
    /\ ToolCallFor(1) = NoTool

-----------------------------------------------------------------------------
(* C9 *)

\* C9: when the model call of an iteration raises, no tool is called for that
\* query, even if its text matches a rule, and the iteration prints its header
\* and the error, nothing else.
C9_NoToolAfterModelFailure ==
    \A q \in DOMAIN queries :
        ModelRaised(q) =>
            /\ EventsOf("tool", q) = {}
            /\ IterationEnded(q)
            /\ (pc = "loop" /\ i = q + 1) =>
                    \E e \in ModelErrors : printed = Header(queries[q]) \o <<"Error: " \o e>>

\* The model call failed for a query that matches the S3 rule: no tool was called.
C9_Witness ==
    /\ queries = test_queries
    /\ MatchingRules(queries[1]) = {1}
    /\ ModelRaised(1)
    /\ pc = "loop"
    /\ i = 2
    /\ EventsOf("tool", 1) = {}

-----------------------------------------------------------------------------
(* C10 *)

\* The tool calls of the trace, in order.
ToolCallsMade ==
    LET calls == SelectSeq(trace, LAMBDA e : e.ev = "tool")
    IN  [n \in DOMAIN calls |-> [q |-> calls[n].q, tool |-> calls[n].tool, args |-> calls[n].args]]

BuiltInToolCalls ==
    << [q |-> 1, tool |-> "list_s3_buckets", args |-> <<>>],
       [q |-> 2, tool |-> "list_route53_hosted_zones", args |-> <<>>],
       [q |-> 3, tool |-> "get_ec2_instance_size", args |-> <<"10.0.1.112">>],
       [q |-> 4, tool |-> "get_user_permissions", args |-> <<"take-home-coding">>] >>

\* C10: over the four built-in queries, when every model call returns, the
\* harness makes four tool calls, one per query and in this order:
\* list_s3_buckets(), list_route53_hosted_zones(),
\* get_ec2_instance_size("10.0.1.112"), get_user_permissions("take-home-coding");
\* and the harness never calls aws_cli_command.
C10_BuiltInQueries ==
    /\ \A k \in ToolEvents : trace[k].tool # "aws_cli_command"
    /\ (queries = test_queries /\ \A q \in DOMAIN queries : ~ModelRaised(q)) =>
        /\ Len(ToolCallsMade) <= Len(BuiltInToolCalls)
        /\ ToolCallsMade = SubSeq(BuiltInToolCalls, 1, Len(ToolCallsMade))
        /\ \A q \in DOMAIN queries : IterationEnded(q) => Len(ToolCallsMade) >= q
        /\ pc = "done" => ToolCallsMade = BuiltInToolCalls

\* The harness returned from the built-in queries with all four model calls answered.
C10_Witness ==
    /\ queries = test_queries
    /\ pc = "done"
    /\ \A q \in DOMAIN queries : ModelReturned(q)
    /\ Len(ToolCallsMade) = Len(test_queries)

=============================================================================
